---------------------------- MODULE Spec2Model ----------------------------
(* A model of src/src/taxi_prediction/property.py: the listing walker and row
   assembler (scrape_suumo) and the detail-page field extractor
   (parse_detail_page, extract_pairs, pick_first_text).

   Text is modelled as Python models it: a str is the sequence of its Unicode
   code points, so "価格" is <<20385, 26684>>.  None is the one-element
   sequence <<-1>>, which is no str (-1 is no code point).

   A parsed document (BeautifulSoup) is modelled by the nodes the code asks it
   for.  A node is the sequence of its text fragments, in document order.
     listing page: the sequence of its <a> elements,
                   [href : str or None, rel_next : BOOLEAN, text : node]
     detail page : [elements : the elements outside <dl> and <table> that a
                       selector of the two candidate lists can match, in
                       document order, none inside another,
                       [tag : its name, class : the set of its classes,
                        in_property_view : it is inside an element of class
                        property_view, node : its text],
                    dls    : the <dl> elements, [dts, dds : sequences of nodes],
                    tables : the <table> elements, each the sequence of its
                             <tr> rows, [ths, tds : sequences of nodes]]
   Elements are not nested in one another of the same kind (no <dl> inside a
   <dl>, no <table> inside a <table>). *)
EXTENDS Integers, Sequences, FiniteSets, TLC

(***************************************************************************)
(* Bounds of the model.                                                    *)
(***************************************************************************)
\* The most listing pages in a chain of the modelled site.
MaxPages == 3
\* The most <tr> rows of the table of a modelled detail page.
MaxRows == 3

(***************************************************************************)
(* Text.                                                                   *)
(***************************************************************************)
NoneVal == <<-1>>

\* Python truth of an Optional[str]: None and "" are false.
Truthy(x) == x # NoneVal /\ x # <<>>

\* The code points c with chr(c).isspace(), which are also those \s matches.
WHITESPACE ==
    {9, 10, 11, 12, 13, 28, 29, 30, 31, 32, 133, 160, 5760} \cup (8192..8202)
        \cup {8232, 8233, 8239, 8287, 12288}

IsSpace(c) == c \in WHITESPACE

RECURSIVE lstrip(_)
lstrip(s) == IF s # <<>> /\ IsSpace(Head(s)) THEN lstrip(Tail(s)) ELSE s

RECURSIVE rstrip(_)
rstrip(s) ==
    IF s # <<>> /\ IsSpace(s[Len(s)]) THEN rstrip(SubSeq(s, 1, Len(s) - 1)) ELSE s

\* str.strip()
strip(s) == rstrip(lstrip(s))

\* re.sub(r"\s+", " ", text): every maximal run of whitespace becomes one space.
RECURSIVE re_sub_spaces(_)
re_sub_spaces(text) ==
    IF text = <<>> THEN <<>>
    ELSE IF IsSpace(Head(text)) THEN <<32>> \o re_sub_spaces(lstrip(text))
    ELSE <<Head(text)>> \o re_sub_spaces(Tail(text))

normalize_text(text) == strip(re_sub_spaces(text))

\* Python's "key in label" on str: key is a contiguous part of label.
Contains(key, label) ==
    \E i \in 0..(Len(label) - Len(key)) : SubSeq(label, i + 1, i + Len(key)) = key

\* sep.join(parts)
RECURSIVE join(_, _)
join(sep, parts) ==
    IF parts = <<>> THEN <<>>
    ELSE IF Len(parts) = 1 THEN parts[1]
    ELSE parts[1] \o sep \o join(sep, Tail(parts))

\* " / ", the separator of the combined fields.
SEP == <<32, 47, 32>>

(***************************************************************************)
(* Nodes of a parsed document.                                             *)
(***************************************************************************)
\* What select_one and find give when no element matches.
NoNode == <<NoneVal>>

RECURSIVE concat(_)
concat(parts) == IF parts = <<>> THEN <<>> ELSE Head(parts) \o concat(Tail(parts))

RECURSIVE stripped_nonempty(_)
stripped_nonempty(frags) ==
    IF frags = <<>> THEN <<>>
    ELSE (IF strip(Head(frags)) = <<>> THEN <<>> ELSE <<strip(Head(frags))>>)
             \o stripped_nonempty(Tail(frags))

\* node.get_text(" ", strip=True): the stripped, non-empty fragments, joined by " ".
get_text_strip(node) == join(<<32>>, stripped_nonempty(node))

\* node.get_text(): the fragments as they are, concatenated.
get_text(node) == concat(node)

(***************************************************************************)
(* The schema and the synonym table.                                       *)
(***************************************************************************)
(* The canonical columns (COLUMNS, source lines 29-55), in declaration order.
   Each column is written by an ASCII name; the source's column text is:
     url           url
     name          物件名
     price         価格
     address       所在地
     access        交通
     layout        間取り
     area          専有面積
     balcony       バルコニー面積
     built         築年数（築年月）
     floor         階数 / 所在階
     direction     向き
     mgmt_fee      管理費
     repair_fund   修繕積立金
     other_fee     その他費用
     handover      引渡し時期
     deal_type     取引態様
     updated       情報更新日
     next_update   次回更新予定日（あれば）
     structure     建物構造（RC / SRC 等）
     units         総戸数
     parking       駐車場
     zoning        用途地域
     land_right    土地権利
     management    管理形態 / 管理会社
     reform        リフォーム（有無・内容が取れれば）
*)
COLUMNS ==
    << "url", "name", "price", "address", "access",
       "layout", "area", "balcony", "built", "floor",
       "direction", "mgmt_fee", "repair_fund", "other_fee", "handover",
       "deal_type", "updated", "next_update", "structure", "units",
       "parking", "zoning", "land_right", "management", "reform" >>

(* The synonym table (LABEL_MAP, source lines 57-89) as the ordered sequence of
   <<key, canonical column>> that iterating the dict yields. *)
LABEL_MAP ==
    << <<<<29289, 20214, 21517>>, "name">>,  \* 58: "物件名"
       <<<<20385, 26684>>, "price">>,  \* 59: "価格"
       <<<<36009, 22770, 20385, 26684>>, "price">>,  \* 60: "販売価格"
       <<<<25152, 22312, 22320>>, "address">>,  \* 61: "所在地"
       <<<<20132, 36890>>, "access">>,  \* 62: "交通"
       <<<<38291, 21462, 12426>>, "layout">>,  \* 63: "間取り"
       <<<<23554, 26377, 38754, 31309>>, "area">>,  \* 64: "専有面積"
       <<<<12496, 12523, 12467, 12491, 12540, 38754, 31309>>, "balcony">>,  \* 65: "バルコニー面積"
       <<<<12496, 12523, 12467, 12491, 12540>>, "balcony">>,  \* 66: "バルコニー"
       <<<<31689, 24180, 25968>>, "built">>,  \* 67: "築年数"
       <<<<31689, 24180, 26376>>, "built">>,  \* 68: "築年月"
       <<<<21521, 12365>>, "direction">>,  \* 69: "向き"
       <<<<31649, 29702, 36027>>, "mgmt_fee">>,  \* 70: "管理費"
       <<<<20462, 32341, 31309, 31435, 37329>>, "repair_fund">>,  \* 71: "修繕積立金"
       <<<<12381, 12398, 20182, 36027, 29992>>, "other_fee">>,  \* 72: "その他費用"
       <<<<24341, 28193>>, "handover">>,  \* 73: "引渡"
       <<<<24341, 28193, 12375>>, "handover">>,  \* 74: "引渡し"
       <<<<21462, 24341, 24907, 27096>>, "deal_type">>,  \* 75: "取引態様"
       <<<<24773, 22577, 26356, 26032, 26085>>, "updated">>,  \* 76: "情報更新日"
       <<<<27425, 22238, 26356, 26032, 26085>>, "next_update">>,  \* 77: "次回更新日"
       <<<<27425, 22238, 26356, 26032, 20104, 23450, 26085>>, "next_update">>,  \* 78: "次回更新予定日"
       <<<<27083, 36896>>, "structure">>,  \* 79: "構造"
       <<<<24314, 29289, 27083, 36896>>, "structure">>,  \* 80: "建物構造"
       <<<<32207, 25144, 25968>>, "units">>,  \* 81: "総戸数"
       <<<<39376, 36554, 22580>>, "parking">>,  \* 82: "駐車場"
       <<<<29992, 36884, 22320, 22495>>, "zoning">>,  \* 83: "用途地域"
       <<<<22303, 22320, 27177, 21033>>, "land_right">>,  \* 84: "土地権利"
       <<<<31649, 29702, 24418, 24907>>, "management">>,  \* 85: "管理形態"
       <<<<31649, 29702, 20250, 31038>>, "management">>,  \* 86: "管理会社"
       <<<<12522, 12501, 12457, 12540, 12512>>, "reform">>,  \* 87: "リフォーム"
       <<<<12522, 12494, 12505, 12540, 12471, 12519, 12531>>, "reform">> >>  \* 88: "リノベーション"

ColumnSet == {COLUMNS[i] : i \in 1..Len(COLUMNS)}

\* OrderedDict((col, None) for col in COLUMNS)
EmptyRow == [c \in ColumnSet |-> NoneVal]

\* data[key] = value on a dict: an absent key is added.
SetItem(data, key, value) ==
    [k \in DOMAIN data \cup {key} |-> IF k = key THEN value ELSE data[k]]

\* The placeholder row of a detail URL whose fetch or parse failed.
PlaceholderRow(url) == SetItem(EmptyRow, "url", url)

(***************************************************************************)
(* extract_pairs, pick_first_text.                                         *)
(***************************************************************************)
\* One (label, value) candidate: kept when both texts are non-empty.
PairOf(label_node, value_node) ==
    LET label == normalize_text(get_text_strip(label_node))
        value == normalize_text(get_text_strip(value_node))
    IN  IF label # <<>> /\ value # <<>> THEN << <<label, value>> >> ELSE <<>>

RECURSIVE ZipPairs(_, _)
ZipPairs(dts, dds) ==
    IF dts = <<>> \/ dds = <<>> THEN <<>>
    ELSE PairOf(Head(dts), Head(dds)) \o ZipPairs(Tail(dts), Tail(dds))

\* The pairs of one <dl>: none when the counts of <dt> and <dd> differ.
DlPairs(dl) == IF Len(dl.dts) # Len(dl.dds) THEN <<>> ELSE ZipPairs(dl.dts, dl.dds)

\* A variant of RowPairs that passes over a row unless it has exactly one <th>
\* and exactly one <td>.
RowPairs_ExactlyOne(row) ==
    IF Len(row.ths) # 1 \/ Len(row.tds) # 1 THEN <<>>
    ELSE PairOf(row.ths[1], row.tds[1])

\* The pair of one <tr>: row.find("th") and row.find("td") are the first of each.
RowPairs(row) ==
    LET th == IF row.ths = <<>> THEN NoNode ELSE row.ths[1]
        td == IF row.tds = <<>> THEN NoNode ELSE row.tds[1]
    IN  IF th = NoNode \/ td = NoNode THEN <<>> ELSE PairOf(th, td)

RECURSIVE AllDlPairs(_)
AllDlPairs(dls) == IF dls = <<>> THEN <<>> ELSE DlPairs(Head(dls)) \o AllDlPairs(Tail(dls))

RECURSIVE AllRowPairs(_)
AllRowPairs(rows) ==
    IF rows = <<>> THEN <<>> ELSE RowPairs(Head(rows)) \o AllRowPairs(Tail(rows))

RECURSIVE AllTablePairs(_)
AllTablePairs(tables) ==
    IF tables = <<>> THEN <<>>
    ELSE AllRowPairs(Head(tables)) \o AllTablePairs(Tail(tables))

extract_pairs(soup) == AllDlPairs(soup.dls) \o AllTablePairs(soup.tables)

\* An element matches a selector of the candidate lists of lines 193-198.
Matches(element, selector) ==
    CASE selector = "h1" -> element.tag = "h1"
      [] selector = ".property_view h1" ->
             element.in_property_view /\ element.tag = "h1"
      [] selector = ".section_h1-title" -> "section_h1-title" \in element.class
      [] selector = ".suumo_h1" -> "suumo_h1" \in element.class
      [] selector = ".property_view .price" ->
             element.in_property_view /\ "price" \in element.class
      [] selector = ".price" -> "price" \in element.class
      [] selector = ".bukkenTitle" -> "bukkenTitle" \in element.class
      [] selector = ".property_view b" ->
             element.in_property_view /\ element.tag = "b"

\* soup.select_one(selector): the node of the first element in document order
\* that matches; NoNode when there is none.
select_one(soup, selector) ==
    LET at == {i \in 1..Len(soup.elements) : Matches(soup.elements[i], selector)}
    IN  IF at = {} THEN NoNode
        ELSE soup.elements[CHOOSE i \in at : \A j \in at : i <= j].node

NAME_SELECTORS == <<"h1", ".property_view h1", ".section_h1-title", ".suumo_h1">>

PRICE_SELECTORS == <<".property_view .price", ".price", ".bukkenTitle", ".property_view b">>

RECURSIVE pick_first_text(_, _)
pick_first_text(soup, selectors) ==
    IF selectors = <<>> THEN NoneVal
    ELSE LET node == select_one(soup, Head(selectors))
             text == IF node = NoNode THEN <<>>
                     ELSE normalize_text(get_text_strip(node))
         IN  IF text # <<>> THEN text ELSE pick_first_text(soup, Tail(selectors))

(***************************************************************************)
(* parse_detail_page.                                                      *)
(***************************************************************************)
L_FLOOR == <<25152, 22312, 38542>>
L_TOTAL_FLOORS == <<38542, 25968>>
L_MANAGEMENT_FORM == <<31649, 29702, 24418, 24907>>
L_MANAGEMENT_COMPANY == <<31649, 29702, 20250, 31038>>

\* A variant of LabelMapScan without the break: every key the label holds writes.
RECURSIVE LabelMapScan_NoBreak(_, _, _, _)
LabelMapScan_NoBreak(i, label, value, data) ==
    IF i > Len(LABEL_MAP) THEN data
    ELSE LabelMapScan_NoBreak(i + 1, label, value,
             IF Contains(LABEL_MAP[i][1], label)
             THEN SetItem(data, LABEL_MAP[i][2], value) ELSE data)

\* for key, mapped in LABEL_MAP.items(): if key in label: data[mapped] = value; break
RECURSIVE LabelMapScan(_, _, _, _)
LabelMapScan(i, label, value, data) ==
    IF i > Len(LABEL_MAP) THEN data
    ELSE IF Contains(LABEL_MAP[i][1], label) THEN SetItem(data, LABEL_MAP[i][2], value)
    ELSE LabelMapScan(i + 1, label, value, data)

\* A variant of ParseStart that leaves out data["url"] = url.
ParseStart_NoUrl(html, url) ==
    LET name  == pick_first_text(html, NAME_SELECTORS)
        price == pick_first_text(html, PRICE_SELECTORS)
        d1 == IF Truthy(name) THEN SetItem(EmptyRow, "name", name) ELSE EmptyRow
        d2 == IF Truthy(price) THEN SetItem(d1, "price", price) ELSE d1
    IN  [data |-> d2, floor_value |-> NoneVal, total_floors |-> NoneVal,
         management_parts |-> <<>>]

\* The locals of parse_detail_page before the pair loop.
ParseStart(html, url) ==
    LET name  == pick_first_text(html, NAME_SELECTORS)
        price == pick_first_text(html, PRICE_SELECTORS)
        d0 == SetItem(EmptyRow, "url", url)
        d1 == IF Truthy(name) THEN SetItem(d0, "name", name) ELSE d0
        d2 == IF Truthy(price) THEN SetItem(d1, "price", price) ELSE d1
    IN  [data |-> d2, floor_value |-> NoneVal, total_floors |-> NoneVal,
         management_parts |-> <<>>]

\* One iteration of the pair loop.
ScanPair(st, pair) ==
    LET normalized_label == normalize_text(pair[1])
        value == pair[2]
    IN  IF normalized_label \in {L_FLOOR, L_TOTAL_FLOORS}
        THEN IF normalized_label = L_FLOOR
             THEN [st EXCEPT !.floor_value = value]
             ELSE [st EXCEPT !.total_floors = value]
        ELSE IF normalized_label \in {L_MANAGEMENT_FORM, L_MANAGEMENT_COMPANY}
        THEN [st EXCEPT !.management_parts = Append(@, value)]
        ELSE [st EXCEPT !.data = LabelMapScan(1, normalized_label, value, @)]

\* list(OrderedDict.fromkeys(parts)): first occurrences, in order.
RECURSIVE fromkeys(_)
fromkeys(parts) ==
    IF parts = <<>> THEN <<>>
    ELSE LET init == fromkeys(SubSeq(parts, 1, Len(parts) - 1))
             last == parts[Len(parts)]
         IN  IF \E i \in 1..Len(init) : init[i] = last THEN init ELSE Append(init, last)

\* A variant of FloorParts with the total floors first.
FloorParts_TotalFirst(floor_value, total_floors) ==
    (IF Truthy(total_floors) THEN <<total_floors>> ELSE <<>>)
        \o (IF Truthy(floor_value) THEN <<floor_value>> ELSE <<>>)

\* [v for v in [floor_value, total_floors] if v]
FloorParts(floor_value, total_floors) ==
    (IF Truthy(floor_value) THEN <<floor_value>> ELSE <<>>)
        \o (IF Truthy(total_floors) THEN <<total_floors>> ELSE <<>>)

\* The two combinations after the pair loop; the result is the returned row.
ParseFinish(st) ==
    LET d1 == IF Truthy(st.floor_value) \/ Truthy(st.total_floors)
              THEN SetItem(st.data, "floor",
                           join(SEP, FloorParts(st.floor_value, st.total_floors)))
              ELSE st.data
    IN  IF st.management_parts # <<>>
        THEN SetItem(d1, "management", join(SEP, fromkeys(st.management_parts)))
        ELSE d1

RECURSIVE ScanAll(_, _)
ScanAll(st, pairs) == IF pairs = <<>> THEN st ELSE ScanAll(ScanPair(st, Head(pairs)), Tail(pairs))

parse_detail_page(html, url) ==
    ParseFinish(ScanAll(ParseStart(html, url), extract_pairs(html)))

(***************************************************************************)
(* urljoin, extract_detail_urls, extract_next_page_url.                    *)
(***************************************************************************)
\* F(v): a local name for the value of v, which is computed once however
\* often F uses it (an assignment to a local variable).
Bind(v, F(_)) == CHOOSE r \in {F(x) : x \in {v}} : TRUE

\* The position of the first c in s at or after position i; 0 when there is none.
IndexFrom(s, c, i) ==
    Bind({k \in i..Len(s) : s[k] = c}, LAMBDA at :
         IF at = {} THEN 0 ELSE CHOOSE k \in at : \A m \in at : k <= m)

\* The position of the last c in s; 0 when there is none.
LastIndex(s, c) ==
    Bind({k \in 1..Len(s) : s[k] = c}, LAMBDA at :
         IF at = {} THEN 0 ELSE CHOOSE k \in at : \A m \in at : k >= m)

(***************************************************************************)
(* urllib.parse of Python 3.11: urlsplit, urlparse, urlunparse, urljoin,   *)
(* on strings as sequences of code points.                                 *)
(***************************************************************************)
\* What urljoin gives when urlsplit raises ValueError.
ValueError == <<-2>>

uses_relative ==
    { <<>>, <<102, 116, 112>>, <<104, 116, 116, 112>>, <<103, 111, 112, 104, 101, 114>>, <<110, 110, 116, 112>>, <<105, 109, 97, 112>>, <<119, 97, 105, 115>>, <<102, 105, 108, 101>>,
      <<104, 116, 116, 112, 115>>, <<115, 104, 116, 116, 112>>, <<109, 109, 115>>, <<112, 114, 111, 115, 112, 101, 114, 111>>, <<114, 116, 115, 112>>, <<114, 116, 115, 112, 115>>, <<114, 116, 115, 112, 117>>,
      <<115, 102, 116, 112>>, <<115, 118, 110>>, <<115, 118, 110, 43, 115, 115, 104>>, <<119, 115>>, <<119, 115, 115>> }

uses_netloc ==
    { <<>>, <<102, 116, 112>>, <<104, 116, 116, 112>>, <<103, 111, 112, 104, 101, 114>>, <<110, 110, 116, 112>>, <<116, 101, 108, 110, 101, 116>>, <<105, 109, 97, 112>>, <<119, 97, 105, 115>>,
      <<102, 105, 108, 101>>, <<109, 109, 115>>, <<104, 116, 116, 112, 115>>, <<115, 104, 116, 116, 112>>, <<115, 110, 101, 119, 115>>, <<112, 114, 111, 115, 112, 101, 114, 111>>, <<114, 116, 115, 112>>,
      <<114, 116, 115, 112, 115>>, <<114, 116, 115, 112, 117>>, <<114, 115, 121, 110, 99>>, <<115, 118, 110>>, <<115, 118, 110, 43, 115, 115, 104>>, <<115, 102, 116, 112>>, <<110, 102, 115>>,
      <<103, 105, 116>>, <<103, 105, 116, 43, 115, 115, 104>>, <<119, 115>>, <<119, 115, 115>> }

uses_params ==
    { <<>>, <<102, 116, 112>>, <<104, 100, 108>>, <<112, 114, 111, 115, 112, 101, 114, 111>>, <<104, 116, 116, 112>>, <<105, 109, 97, 112>>, <<104, 116, 116, 112, 115>>, <<115, 104, 116, 116, 112>>,
      <<114, 116, 115, 112>>, <<114, 116, 115, 112, 115>>, <<114, 116, 115, 112, 117>>, <<115, 105, 112>>, <<115, 105, 112, 115>>, <<109, 109, 115>>, <<115, 102, 116, 112>>, <<116, 101, 108>> }

\* a-z, A-Z, 0-9, "+", "-", "."
scheme_chars == (97..122) \cup (65..90) \cup (48..57) \cup {43, 45, 46}

ASCII_LETTERS == (97..122) \cup (65..90)

WHATWG_C0_CONTROL_OR_SPACE == 0..32

\* "\t", "\r", "\n"
UNSAFE_URL_BYTES_TO_REMOVE == {9, 13, 10}

\* 0-9, A-F, a-f
HEX_DIGITS == (48..57) \cup (65..70) \cup (97..102)

(* The characters outside ASCII whose NFKC form holds one of "/?#@:"
   (unicodedata.normalize of _checknetloc): U+2047-2049, U+2100, U+2101,
   U+2105, U+2106, U+2A74, U+FE13, U+FE16, U+FE55, U+FE56, U+FE5F, U+FE6B,
   U+FF03, U+FF0F, U+FF1A, U+FF1F, U+FF20. *)
NFKC_DELIMITERS ==
    { 8263, 8264, 8265, 8448, 8449, 8453, 8454, 10868, 65043, 65046, 65109, 65110,
      65119, 65131, 65283, 65295, 65306, 65311, 65312 }

\* str.lower() of a string of scheme_chars.
lower(s) == [i \in 1..Len(s) |-> IF s[i] \in 65..90 THEN s[i] + 32 ELSE s[i]]

\* s.lstrip(chars)
lstrip_chars(s, chars) ==
    Bind({k \in 1..Len(s) : s[k] \notin chars}, LAMBDA keep :
         IF keep = {} THEN <<>>
         ELSE SubSeq(s, CHOOSE k \in keep : \A m \in keep : k <= m, Len(s)))

\* The pieces of s from position i on, between the occurrences of c.
RECURSIVE split_from(_, _, _)
split_from(s, c, i) ==
    Bind(IndexFrom(s, c, i), LAMBDA k :
         IF k = 0 THEN <<SubSeq(s, i, Len(s))>>
         ELSE <<SubSeq(s, i, k - 1)>> \o split_from(s, c, k + 1))

\* s.split(c)
split(s, c) == split_from(s, c, 1)

\* ipaddress.IPv4Address._parse_octet does not raise.
parse_octet_ok(octet_str) ==
    /\ octet_str # <<>>
    /\ \A i \in 1..Len(octet_str) : octet_str[i] \in 48..57
    /\ Len(octet_str) <= 3
    /\ octet_str = <<48>> \/ octet_str[1] # 48
    /\ Len(octet_str) = 3 =>
           100 * (octet_str[1] - 48) + 10 * (octet_str[2] - 48) + (octet_str[3] - 48) <= 255

\* ipaddress.IPv4Address(ip_str) does not raise.
IPv4Address_ok(ip_str) ==
    /\ ip_str # <<>>
    /\ Bind(split(ip_str, 46), LAMBDA octets :
            Len(octets) = 4 /\ \A i \in 1..4 : parse_octet_ok(octets[i]))

\* ipaddress.IPv6Address._parse_hextet does not raise.
parse_hextet_ok(hextet_str) ==
    /\ \A i \in 1..Len(hextet_str) : hextet_str[i] \in HEX_DIGITS
    /\ Len(hextet_str) <= 4
    /\ hextet_str # <<>>

\* ipaddress.IPv6Address._ip_int_from_string does not raise.
ip_int_from_string_ok(ip_str) ==
    Bind(split(ip_str, 58), LAMBDA split_parts :
    Bind(Contains(<<46>>, split_parts[Len(split_parts)]), LAMBDA v4_suffix :
    \* the IPv4 suffix becomes two hextets
    Bind(IF v4_suffix
         THEN SubSeq(split_parts, 1, Len(split_parts) - 1) \o <<<<48>>, <<48>>>>
         ELSE split_parts, LAMBDA parts :
    Bind({i \in 2..(Len(parts) - 1) : parts[i] = <<>>}, LAMBDA skips :
    LET n == Len(parts)
        skip_index == CHOOSE i \in skips : TRUE
        hi0 == skip_index - 1
        lo0 == n - skip_index
        parts_hi == IF parts[1] = <<>> THEN hi0 - 1 ELSE hi0
        parts_lo == IF parts[n] = <<>> THEN lo0 - 1 ELSE lo0
    IN  /\ ip_str # <<>>
        /\ Len(split_parts) >= 3
        /\ v4_suffix => IPv4Address_ok(split_parts[Len(split_parts)])
        /\ n <= 9
        /\ Cardinality(skips) <= 1
        /\ IF skips # {}
           THEN /\ parts[1] = <<>> => parts_hi = 0
                /\ parts[n] = <<>> => parts_lo = 0
                /\ 8 - (parts_hi + parts_lo) >= 1
                /\ \A i \in 1..parts_hi : parse_hextet_ok(parts[i])
                /\ \A i \in (n - parts_lo + 1)..n : parse_hextet_ok(parts[i])
           ELSE /\ n = 8
                /\ parts[1] # <<>>
                /\ parts[n] # <<>>
                /\ \A i \in 1..n : parse_hextet_ok(parts[i])))))

\* ipaddress.IPv6Address(address) does not raise: the scope id after "%", then
\* the address.
IPv6Address_ok(address) ==
    Bind(IndexFrom(address, 37, 1), LAMBDA sep :
    Bind(IF sep = 0 THEN address ELSE SubSeq(address, 1, sep - 1), LAMBDA addr :
    Bind(SubSeq(address, sep + 1, Len(address)), LAMBDA scope_id :
         /\ sep # 0 => scope_id # <<>> /\ IndexFrom(scope_id, 37, 1) = 0
         /\ ip_int_from_string_ok(addr))))

(* _check_bracketed_host does not raise: "v" hex+ "." any+ for a host that
   starts with "v"; else an IPv6 address (ip_address gives an IPv4Address for
   no string that IPv6Address takes, and an IPv4Address raises here). *)
check_bracketed_host_ok(hostname) ==
    IF hostname # <<>> /\ hostname[1] = 118
    THEN Bind(IndexFrom(hostname, 46, 1), LAMBDA dot :
              /\ dot >= 3
              /\ \A k \in 2..(dot - 1) : hostname[k] \in HEX_DIGITS
              /\ dot < Len(hostname))
    ELSE IPv6Address_ok(hostname)

\* The checks of urlsplit on a netloc raise ValueError: brackets that do not
\* pair up or hold no valid host, and _checknetloc.
netloc_raises(netloc) ==
    Bind(IndexFrom(netloc, 91, 1), LAMBDA open :
    Bind(IndexFrom(netloc, 93, 1), LAMBDA close :
    Bind(IndexFrom(netloc, 93, open + 1), LAMBDA after :
    Bind(SubSeq(netloc, open + 1, IF after = 0 THEN Len(netloc) ELSE after - 1),
         LAMBDA bracketed_host :
         \/ (open # 0) # (close # 0)
         \/ open # 0 /\ close # 0 /\ ~check_bracketed_host_ok(bracketed_host)
         \/ \E k \in 1..Len(netloc) : netloc[k] \in NFKC_DELIMITERS))))

\* urlsplit(url, scheme) for a scheme that is "" or the scheme of a base (which
\* strip and replace leave alone); raises tells that it raises ValueError.
urlsplit(url, scheme) ==
    Bind(SelectSeq(lstrip_chars(url, WHATWG_C0_CONTROL_OR_SPACE),
                   LAMBDA c : c \notin UNSAFE_URL_BYTES_TO_REMOVE), LAMBDA stripped :
    Bind(IndexFrom(stripped, 58, 1), LAMBDA i :
    Bind(/\ i > 1
         /\ stripped[1] \in ASCII_LETTERS
         /\ \A k \in 1..(i - 1) : stripped[k] \in scheme_chars, LAMBDA has_scheme :
    Bind(IF has_scheme THEN SubSeq(stripped, i + 1, Len(stripped)) ELSE stripped,
         LAMBDA rest :
    Bind(Len(rest) >= 2 /\ rest[1] = 47 /\ rest[2] = 47, LAMBDA has_netloc :
    Bind({k \in 3..Len(rest) : rest[k] \in {47, 63, 35}}, LAMBDA delims :
    Bind(IF delims = {} THEN Len(rest) + 1
         ELSE CHOOSE k \in delims : \A m \in delims : k <= m, LAMBDA delim :
    Bind(IF has_netloc THEN SubSeq(rest, 3, delim - 1) ELSE <<>>, LAMBDA netloc :
    Bind(IF has_netloc THEN SubSeq(rest, delim, Len(rest)) ELSE rest,
         LAMBDA after_netloc :
    Bind(IndexFrom(after_netloc, 35, 1), LAMBDA hash :
    Bind(IF hash = 0 THEN after_netloc ELSE SubSeq(after_netloc, 1, hash - 1),
         LAMBDA no_fragment :
    Bind(IndexFrom(no_fragment, 63, 1), LAMBDA mark :
        [raises   |-> netloc_raises(netloc),
         scheme   |-> IF has_scheme THEN Bind(SubSeq(stripped, 1, i - 1), lower)
                      ELSE scheme,
         netloc   |-> netloc,
         path     |-> IF mark = 0 THEN no_fragment ELSE SubSeq(no_fragment, 1, mark - 1),
         query    |-> IF mark = 0 THEN <<>>
                      ELSE SubSeq(no_fragment, mark + 1, Len(no_fragment)),
         fragment |-> IF hash = 0 THEN <<>>
                      ELSE SubSeq(after_netloc, hash + 1, Len(after_netloc))]))))))))))))

\* _splitparams: the position of the ";" that starts the params of a path; 0
\* when the last segment has none.
splitparams_at(path) ==
    Bind(LastIndex(path, 47), LAMBDA slash : IndexFrom(path, 59, IF slash = 0 THEN 1 ELSE slash))

urlparse(url, scheme) ==
    Bind(urlsplit(url, scheme), LAMBDA splitresult :
    Bind(IF splitresult.scheme \in uses_params THEN splitparams_at(splitresult.path)
         ELSE 0, LAMBDA i :
        LET path == splitresult.path
        IN  [raises   |-> splitresult.raises,
             scheme   |-> splitresult.scheme,
             netloc   |-> splitresult.netloc,
             path     |-> IF i = 0 THEN path ELSE SubSeq(path, 1, i - 1),
             params   |-> IF i = 0 THEN <<>> ELSE SubSeq(path, i + 1, Len(path)),
             query    |-> splitresult.query,
             fragment |-> splitresult.fragment]))

urlunsplit(scheme, netloc, url, query, fragment) ==
    LET with_netloc ==
            IF netloc # <<>> \/ (scheme # <<>> /\ scheme \in uses_netloc
                                   /\ ~(Len(url) >= 2 /\ url[1] = 47 /\ url[2] = 47))
            THEN <<47, 47>> \o netloc \o (IF url # <<>> /\ url[1] # 47 THEN <<47>> ELSE <<>>) \o url
            ELSE url
        with_scheme == IF scheme # <<>> THEN scheme \o <<58>> \o with_netloc ELSE with_netloc
        with_query  == IF query # <<>> THEN with_scheme \o <<63>> \o query ELSE with_scheme
    IN  IF fragment # <<>> THEN with_query \o <<35>> \o fragment ELSE with_query

urlunparse(scheme, netloc, url, params, query, fragment) ==
    Bind(IF params # <<>> THEN url \o <<59>> \o params ELSE url, LAMBDA with_params :
         urlunsplit(scheme, netloc, with_params, query, fragment))

\* The loop of urljoin over the segments after the first i - 1.
RECURSIVE resolve_from(_, _, _)
resolve_from(segments, i, resolved_path) ==
    IF i > Len(segments) THEN resolved_path
    ELSE IF segments[i] = <<46, 46>>
    THEN Bind(SubSeq(resolved_path, 1, Len(resolved_path) - 1), LAMBDA popped :
              resolve_from(segments, i + 1, popped))
    ELSE IF segments[i] = <<46>>
    THEN resolve_from(segments, i + 1, resolved_path)
    ELSE Bind(Append(resolved_path, segments[i]), LAMBDA pushed :
              resolve_from(segments, i + 1, pushed))

\* urllib.parse.urljoin(base, url): a string, or ValueError.
urljoin(base, url) ==
    IF base = <<>> THEN url
    ELSE IF url = <<>> THEN base
    ELSE Bind(urlparse(base, <<>>), LAMBDA b :
         Bind(urlparse(url, b.scheme), LAMBDA u :
         Bind(IF u.scheme \in uses_netloc THEN b.netloc ELSE u.netloc, LAMBDA netloc :
         IF b.raises THEN ValueError
         ELSE IF u.raises THEN ValueError
         ELSE IF u.scheme # b.scheme \/ u.scheme \notin uses_relative THEN url
         ELSE IF u.scheme \in uses_netloc /\ u.netloc # <<>>
         THEN urlunparse(u.scheme, u.netloc, u.path, u.params, u.query, u.fragment)
         ELSE IF u.path = <<>> /\ u.params = <<>>
         THEN urlunparse(u.scheme, netloc, b.path, b.params,
                         IF u.query = <<>> THEN b.query ELSE u.query, u.fragment)
         ELSE
         Bind(split(b.path, 47), LAMBDA bparts :
         Bind(IF bparts[Len(bparts)] # <<>>
              THEN SubSeq(bparts, 1, Len(bparts) - 1) ELSE bparts, LAMBDA base_parts :
         Bind(base_parts \o split(u.path, 47), LAMBDA joined :
         Bind(IF u.path # <<>> /\ u.path[1] = 47 THEN split(u.path, 47)
              ELSE IF Len(joined) <= 2 THEN joined
              ELSE <<joined[1]>>
                   \o SelectSeq(SubSeq(joined, 2, Len(joined) - 1),
                                LAMBDA seg : seg # <<>>)
                   \o <<joined[Len(joined)]>>, LAMBDA segments :
         Bind(resolve_from(segments, 1, <<>>), LAMBDA resolved :
         Bind(IF segments[Len(segments)] \in {<<46>>, <<46, 46>>}
              THEN Append(resolved, <<>>) ELSE resolved, LAMBDA resolved_path :
         Bind(join(<<47>>, resolved_path), LAMBDA path :
              urlunparse(u.scheme, netloc, IF path = <<>> THEN <<47>> ELSE path,
                         u.params, u.query, u.fragment)))))))))))

\* The path markers of line 115.
IsDetailHref(href) ==
    ~( ~Contains(<<47, 106, 106, 47, 98, 117, 107, 107, 101, 110, 47>>, href) /\ ~Contains(<<47, 109, 115, 47>>, href)
         /\ ~Contains(<<47, 98, 117, 107, 107, 101, 110, 47>>, href) )

InSeq(x, s) == \E i \in 1..Len(s) : s[i] = x

\* The loop of extract_detail_urls over the anchors after the first i - 1, with
\* the urls found so far (seen is the set of their elements); <<ValueError>>,
\* which is no list of URLs, when urljoin raises it.
RECURSIVE DetailUrlsFrom(_, _, _, _)
DetailUrlsFrom(anchors, i, base_url, urls) ==
    IF i > Len(anchors) THEN urls
    ELSE LET href == anchors[i].href
         IN  IF ~Truthy(href) THEN DetailUrlsFrom(anchors, i + 1, base_url, urls)
             ELSE IF ~IsDetailHref(href)
             THEN DetailUrlsFrom(anchors, i + 1, base_url, urls)
             ELSE Bind(urljoin(base_url, href), LAMBDA full_url :
                  IF full_url = ValueError THEN <<ValueError>>
                  ELSE IF InSeq(full_url, urls)
                  THEN DetailUrlsFrom(anchors, i + 1, base_url, urls)
                  ELSE Bind(Append(urls, full_url), LAMBDA found :
                            DetailUrlsFrom(anchors, i + 1, base_url, found)))

\* soup.select("a[href]") are the anchors that have an href attribute; one
\* without (href None) is passed over by "if not href" all the same.
extract_detail_urls(listing_html, base_url) ==
    DetailUrlsFrom(listing_html, 1, base_url, <<>>)

\* The anchor texts that mean "next page" (line 130).
NEXT_TEXTS == {<<27425, 12408>>, <<27425, 12398, 51, 48, 20214>>, <<27425, 12398, 12506, 12540, 12472>>}

\* The position of the first <a rel="next"> among the anchors from position i
\* on (soup.select_one("a[rel='next']")); 0 when there is none.
RECURSIVE FirstRelNext(_, _)
FirstRelNext(anchors, i) ==
    IF i > Len(anchors) THEN 0
    ELSE IF anchors[i].rel_next THEN i ELSE FirstRelNext(anchors, i + 1)

\* The position of the first anchor from position i on whose normalized text is
\* a next text (lines 129-132); 0 when there is none.
RECURSIVE FirstNextText(_, _)
FirstNextText(anchors, i) ==
    IF i > Len(anchors) THEN 0
    ELSE IF normalize_text(get_text(anchors[i].text)) \in NEXT_TEXTS THEN i
    ELSE FirstNextText(anchors, i + 1)

\* None, the URL of the next page, or ValueError when urljoin raises it.
extract_next_page_url(listing_html, base_url) ==
    LET by_rel    == FirstRelNext(listing_html, 1)
        next_link == IF by_rel # 0 THEN by_rel ELSE FirstNextText(listing_html, 1)
    IN  IF next_link = 0 THEN NoneVal
        ELSE IF ~Truthy(listing_html[next_link].href) THEN NoneVal
        ELSE urljoin(base_url, listing_html[next_link].href)

(***************************************************************************)
(* State.                                                                  *)
(***************************************************************************)
VARIABLES
    \* parse_detail_page: its arguments, its locals and its position
    html, url, data, pairs, pair_index, floor_value, total_floors, management_parts,
    parse_pc,
    \* the site: site[k] is the listing page (its anchors) served at ListingUrl(k)
    site,
    \* scrape_suumo: its locals and its position; error is the RuntimeError raised
    page_url, detail_urls, seen_detail_urls, records, idx, pc, error,
    \* what scrape_suumo has done: the listing URLs fetched, in order; for every
    \* detail URL visited how the visit went; the fetches of listing pages ("L")
    \* and detail pages ("D") and the sleeps ("S"), in order
    fetched_pages, outcomes, log

parse_vars ==
    <<html, url, data, pairs, pair_index, floor_value, total_floors, management_parts,
      parse_pc>>

scrape_vars ==
    <<site, page_url, detail_urls, seen_detail_urls, records, idx, pc, error,
      fetched_pages, outcomes, log>>

vars == <<parse_vars, scrape_vars>>

(***************************************************************************)
(* The detail pages parse_detail_page is run on.                           *)
(***************************************************************************)
Node(text) == <<text>>

T_REMARKS == <<20633, 32771>>
T_PRICE == <<20385, 26684>>
V_3F == <<51, 38542>>
V_10F == <<49, 48, 38542, 24314>>
V_A == <<65, 31038>>
V_B == <<66, 31038>>

Row(ths, tds) == [ths |-> ths, tds |-> tds]

\* The <tr> rows a modelled table is built from.
ROWS ==
    { Row(<<Node(L_FLOOR)>>, <<Node(V_3F)>>),
      Row(<<Node(L_TOTAL_FLOORS)>>, <<Node(V_10F)>>),
      Row(<<Node(L_MANAGEMENT_COMPANY)>>, <<Node(V_A)>>),
      \* "管理会社名": holds a management key, but is not one of the two held labels
      Row(<<Node(<<31649, 29702, 20250, 31038, 21517>>)>>, <<Node(V_B)>>),
      \* "土地権利/用途地域": holds the keys of two different columns
      Row(<<Node(<<22303, 22320, 27177, 21033, 47, 29992, 36884, 22320, 22495>>)>>, <<Node(V_B)>>),
      \* two <th> and two <td> in one row; the first <th> is "販売価格" inside
      \* whitespace, which holds the keys "価格" and "販売価格"
      Row(<<Node(<<32, 36009, 22770, 20385, 26684, 10>>), Node(T_REMARKS)>>, <<Node(V_B), Node(V_A)>>),
      \* a <th> and no <td>; a <td> and no <th>
      Row(<<Node(T_REMARKS)>>, <<>>),
      Row(<<>>, <<Node(V_A)>>) }

Dl(dts, dds) == [dts |-> dts, dds |-> dds]

\* A <dl> whose <dt> and <dd> pair up (its last <dd> holds whitespace only), and
\* one with more <dt> than <dd>.
DL_PAIRED ==
    Dl(<<Node(T_REMARKS), Node(T_PRICE), Node(<<21521, 12365>>)>>,
       <<Node(V_A), Node(V_3F), <<<<12288>>, <<10>>>> >>)

DL_UNEVEN == Dl(<<Node(T_PRICE), Node(T_REMARKS)>>, <<Node(V_A)>>)

Element(tag, class, in_property_view, node) ==
    [tag |-> tag, class |-> class, in_property_view |-> in_property_view, node |-> node]

\* What a modelled page holds besides its table: nothing; or a paired <dl>, an
\* <h1> of whitespace only inside ".property_view", a ".section_h1-title" in
\* two fragments and a ".price" inside ".property_view"; or an uneven <dl> and
\* an <h1>.
HEADS ==
    { [elements |-> <<>>, dls |-> <<>>],
      [elements |-> << Element("h1", {}, TRUE, Node(<<32, 10>>)),
                       Element("span", {"price"}, TRUE, Node(<<49, 48, 48, 48, 19975, 20870>>)),
                       Element("div", {"section_h1-title"}, FALSE,
                               <<<<12469, 12531>>, <<32, 12495, 12452, 12484, 10>>>>) >>,
       dls |-> <<DL_PAIRED>>],
      [elements |-> << Element("h1", {}, FALSE, Node(<<12469, 12531, 12495, 12452, 12484>>)) >>,
       dls |-> <<DL_UNEVEN>>] }

RECURSIVE SeqsUpTo(_, _)
SeqsUpTo(S, n) ==
    IF n = 0 THEN {<<>>}
    ELSE LET shorter == SeqsUpTo(S, n - 1)
         IN  shorter \cup {Append(s, x) : s \in shorter, x \in S}

DetailPage(head, rows) ==
    [elements |-> head.elements, dls |-> head.dls, tables |-> IF rows = <<>> THEN <<>> ELSE <<rows>>]

DetailPages == {DetailPage(head, rows) : head \in HEADS, rows \in SeqsUpTo(ROWS, MaxRows)}

\* The URL the pages of ParseSpec are parsed for.
U_DETAIL == <<104, 116, 116, 112, 115, 58, 47, 47, 115, 46, 106, 112, 47, 109, 115, 47, 110, 99, 95, 49, 47>>

\* scrape_suumo is not running.
ScrapeIdle ==
    /\ site = <<>>
    /\ page_url = NoneVal
    /\ detail_urls = <<>>
    /\ seen_detail_urls = {}
    /\ records = <<>>
    /\ idx = 1
    /\ pc = "idle"
    /\ error = "none"
    /\ fetched_pages = <<>>
    /\ outcomes = <<>>
    /\ log = <<>>

\* parse_detail_page is not stepped through.
ParseIdle ==
    /\ html = DetailPage(CHOOSE h \in HEADS : h.dls = <<>>, <<>>)
    /\ url = NoneVal
    /\ data = EmptyRow
    /\ pairs = <<>>
    /\ pair_index = 1
    /\ floor_value = NoneVal
    /\ total_floors = NoneVal
    /\ management_parts = <<>>
    /\ parse_pc = "idle"

(***************************************************************************)
(* parse_detail_page, step by step.                                        *)
(***************************************************************************)
ParseInit ==
    /\ html \in DetailPages
    /\ url = U_DETAIL
    /\ data = EmptyRow
    /\ pairs = <<>>
    /\ pair_index = 1
    /\ floor_value = NoneVal
    /\ total_floors = NoneVal
    /\ management_parts = <<>>
    /\ parse_pc = "start"
    /\ ScrapeIdle

\* Lines 189-207: the row, the name and price, the pairs.
ParseBegin ==
    /\ parse_pc = "start"
    /\ LET st == ParseStart(html, url)
       IN  /\ data' = st.data
           /\ floor_value' = st.floor_value
           /\ total_floors' = st.total_floors
           /\ management_parts' = st.management_parts
    /\ pairs' = extract_pairs(html)
    /\ pair_index' = 1
    /\ parse_pc' = "scan"
    /\ UNCHANGED <<html, url>>
    /\ UNCHANGED scrape_vars

\* Lines 209-224: one iteration of "for label, value in pairs".
ParseScan ==
    /\ parse_pc = "scan"
    /\ pair_index <= Len(pairs)
    /\ LET st == ScanPair([data |-> data, floor_value |-> floor_value,
                           total_floors |-> total_floors,
                           management_parts |-> management_parts],
                          pairs[pair_index])
       IN  /\ data' = st.data
           /\ floor_value' = st.floor_value
           /\ total_floors' = st.total_floors
           /\ management_parts' = st.management_parts
    /\ pair_index' = pair_index + 1
    /\ UNCHANGED <<html, url, pairs, parse_pc>>
    /\ UNCHANGED scrape_vars

\* Lines 226-233: the loop is over; the floor and management fields; return.
ParseEnd ==
    /\ parse_pc = "scan"
    /\ pair_index > Len(pairs)
    /\ data' = ParseFinish([data |-> data, floor_value |-> floor_value,
                            total_floors |-> total_floors,
                            management_parts |-> management_parts])
    /\ parse_pc' = "done"
    /\ UNCHANGED <<html, url, pairs, pair_index, floor_value, total_floors,
                   management_parts>>
    /\ UNCHANGED scrape_vars

ParseNext == ParseBegin \/ ParseScan \/ ParseEnd

ParseSpec == ParseInit /\ [][ParseNext]_vars

(***************************************************************************)
(* The site scrape_suumo is run on.                                        *)
(***************************************************************************)
\* The URL of the k-th listing page, "https://s.jp/jj/bukken/l/?pn=k".
ListingUrl(k) == <<104, 116, 116, 112, 115, 58, 47, 47, 115, 46, 106, 112, 47, 106, 106, 47, 98, 117, 107, 107, 101, 110, 47, 108, 47, 63, 112, 110, 61>> \o <<48 + k>>

U_DETAIL_2 == <<104, 116, 116, 112, 115, 58, 47, 47, 115, 46, 106, 112, 47, 109, 115, 47, 110, 99, 95, 50, 47>>

Anchor(href, rel_next, text) == [href |-> href, rel_next |-> rel_next, text |-> text]

\* The anchors of a listing page besides its next link: links to detail pages
\* (one of them by path, by absolute URL and by a relative path with dot
\* segments after a space), a link elsewhere, an anchor without href and one
\* with an empty href.
BODIES ==
    { << Anchor(<<47, 109, 115, 47, 110, 99, 95, 49, 47>>, FALSE, Node(<<12469, 12531, 12495, 12452, 12484>>)),
         Anchor(<<47, 104, 101, 108, 112, 47>>, FALSE, Node(<<12504, 12523, 12503>>)),
         Anchor(<<104, 116, 116, 112, 115, 58, 47, 47, 115, 46, 106, 112, 47, 109, 115, 47, 110, 99, 95, 49, 47>>, FALSE, Node(<<35443, 32048>>)),
         Anchor(NoneVal, FALSE, Node(<<27425>>)) >>,
      << Anchor(<<47, 109, 115, 47, 110, 99, 95, 50, 47>>, FALSE, Node(<<35443, 32048>>)),
         Anchor(<<32, 46, 46, 47, 46, 46, 47, 46, 46, 47, 109, 115, 47, 46, 47, 110, 99, 95, 49, 47>>, FALSE, Node(<<12469, 12531, 12495, 12452, 12484>>)),
         Anchor(<<>>, FALSE, Node(<<27425, 12408>>)) >>,
      << Anchor(<<47, 104, 101, 108, 112, 47>>, FALSE, Node(<<12504, 12523, 12503>>)) >> }

\* The next link of page k - 1, to page k: <a rel="next"> with the path of the
\* listing; or an anchor found by its text, with the query alone.
NEXT_STYLES == {"rel", "text"}

NextLink(style, k) ==
    IF style = "rel"
    THEN << Anchor(<<47, 106, 106, 47, 98, 117, 107, 107, 101, 110, 47, 108, 47, 63, 112, 110, 61>> \o <<48 + k>>, TRUE, Node(<<27425, 12408>>)) >>
    ELSE << Anchor(<<63, 112, 110, 61>> \o <<48 + k>>, FALSE, <<<<32, 27425, 12398>>, <<51, 48, 20214, 10>>>>) >>

\* The end of the last page: no next link at all; an <a rel="next"> that has
\* no href, before an anchor with a next text; an <a rel="next"> whose href
\* holds a host with an unpaired bracket, which urljoin raises ValueError for;
\* or a link to a detail page with such an href, and no next link.
LAST_STYLES == {"none", "no_href", "bad_host", "bad_detail"}

LastLink(style) ==
    IF style = "none" THEN <<>>
    ELSE IF style = "no_href"
    THEN << Anchor(NoneVal, TRUE, Node(<<27425, 12408>>)),
            Anchor(<<63, 112, 110, 61, 57>>, FALSE, Node(<<27425, 12398, 12506, 12540, 12472>>)) >>
    ELSE IF style = "bad_host"
    THEN << Anchor(<<47, 47, 91, 115, 46, 106, 112, 47, 63, 112, 110, 61, 57>>, TRUE, Node(<<27425, 12408>>)) >>
    ELSE << Anchor(<<47, 47, 91, 115, 46, 106, 112, 47, 109, 115, 47, 110, 99, 95, 51, 47>>, FALSE, Node(<<35443, 32048>>)) >>

\* Sites of n listing pages: page k carries a link to page k + 1 after its
\* body, the last page the anchors of LastLink.
SitesOf(n) ==
    { [k \in 1..n |-> body[k] \o (IF k < n THEN NextLink(next[k], k + 1)
                                          ELSE LastLink(last))] :
          body \in [1..n -> BODIES], next \in [1..(n - 1) -> NEXT_STYLES],
          last \in LAST_STYLES }

Sites == UNION {SitesOf(n) : n \in 1..MaxPages}

\* The page number of a listing URL; 0 when the URL is no listing page.
PageNumber(u) ==
    IF \E k \in 1..Len(site) : ListingUrl(k) = u
    THEN CHOOSE k \in 1..Len(site) : ListingUrl(k) = u
    ELSE 0

\* The detail page served at a URL: a page with labels of every kind (a key of
\* LABEL_MAP, a label holding two keys, held labels, "url", an unknown label),
\* a small one, and, for a URL that is no detail page, a listing page read as
\* one (no <dl>, no table).
DetailHtml(u) ==
    IF u = U_DETAIL
    THEN [elements |-> << Element("h1", {}, FALSE, Node(<<12469, 12531, 12495, 12452, 12484>>)),
                          Element("span", {"price"}, FALSE, Node(<<49, 48, 48, 48, 19975, 20870>>)) >>,
          dls    |-> <<DL_PAIRED>>,
          tables |-> << << Row(<<Node(<<12522, 12501, 12457, 12540, 12512>>)>>, <<Node(V_A)>>),
                           Row(<<Node(<<22303, 22320, 27177, 21033, 47, 29992, 36884, 22320, 22495>>)>>, <<Node(V_B)>>),
                           Row(<<Node(L_FLOOR)>>, <<Node(V_3F)>>),
                           Row(<<Node(L_MANAGEMENT_FORM)>>, <<Node(V_B)>>),
                           Row(<<Node(<<117, 114, 108>>)>>, <<Node(V_B)>>),
                           Row(<<Node(T_REMARKS)>>, <<Node(V_A)>>) >> >>]
    ELSE IF u = U_DETAIL_2
    THEN [elements |-> <<>>,
          dls    |-> <<DL_UNEVEN>>,
          tables |-> << << Row(<<Node(L_TOTAL_FLOORS)>>, <<Node(V_10F)>>) >> >>]
    ELSE [elements |-> << Element("h1", {}, FALSE, Node(<<19968, 35239>>)) >>,
          dls |-> <<>>, tables |-> <<>>]

(***************************************************************************)
(* scrape_suumo.                                                           *)
(***************************************************************************)
\* Lines 237-242, for listing_url the first page of a site.
Init ==
    /\ site \in Sites
    /\ page_url = ListingUrl(1)
    /\ detail_urls = <<>>
    /\ seen_detail_urls = {}
    /\ records = <<>>
    /\ idx = 1
    /\ pc = "walk"
    /\ error = "none"
    /\ fetched_pages = <<>>
    /\ outcomes = <<>>
    /\ log = <<>>
    /\ ParseIdle

\* Lines 248-251: the URLs of a page not seen before are appended, in order.
RECURSIVE ExtendUnseen(_, _)
ExtendUnseen(urls, page_detail_urls) ==
    IF page_detail_urls = <<>> THEN urls
    ELSE ExtendUnseen(IF InSeq(Head(page_detail_urls), urls) THEN urls
                      ELSE Append(urls, Head(page_detail_urls)),
                      Tail(page_detail_urls))

\* Lines 243-257, one iteration of "while page_url" whose fetch gives the page:
\* the detail URLs, the next page, the sleep before it; after the last page the
\* check that there are detail URLs.  A ValueError of urljoin is caught nowhere
\* and ends scrape_suumo.
WalkPage ==
    /\ pc = "walk"
    /\ PageNumber(page_url) # 0
    /\ LET listing_html == site[PageNumber(page_url)]
           page_detail_urls == extract_detail_urls(listing_html, page_url)
           found  == IF InSeq(ValueError, page_detail_urls) THEN detail_urls
                     ELSE ExtendUnseen(detail_urls, page_detail_urls)
           next   == extract_next_page_url(listing_html, page_url)
           raised == InSeq(ValueError, page_detail_urls) \/ next = ValueError
       IN  /\ detail_urls' = found
           /\ seen_detail_urls' = {found[i] : i \in 1..Len(found)}
           /\ page_url' = IF raised THEN page_url ELSE next
           /\ fetched_pages' = Append(fetched_pages, page_url)
           /\ log' = log \o (IF ~raised /\ Truthy(next) THEN <<"L", "S">> ELSE <<"L">>)
           /\ IF raised THEN pc' = "aborted" /\ error' = "ValueError"
              ELSE IF Truthy(next) THEN pc' = "walk" /\ error' = error
              ELSE IF found = <<>> THEN pc' = "aborted" /\ error' = "no_detail_urls"
              ELSE pc' = "details" /\ error' = error
    /\ UNCHANGED <<site, records, idx, outcomes>>
    /\ UNCHANGED parse_vars

\* A variant of WalkFetchFails that ends the walk with the URLs collected so far
\* when a page after the first cannot be fetched.
WalkFetchFails_EndsWalk ==
    /\ pc = "walk"
    /\ IF fetched_pages = <<>>
       THEN pc' = "aborted" /\ error' = "listing_fetch_failed"
       ELSE IF detail_urls = <<>>
       THEN pc' = "aborted" /\ error' = "no_detail_urls"
       ELSE pc' = "details" /\ error' = error
    /\ log' = Append(log, "L")
    /\ UNCHANGED <<site, page_url, detail_urls, seen_detail_urls, records, idx,
                   fetched_pages, outcomes>>
    /\ UNCHANGED parse_vars

\* Lines 244-246: fetch_html gives None (a status other than 200, a
\* RequestException): RuntimeError.
WalkFetchFails ==
    /\ pc = "walk"
    /\ pc' = "aborted"
    /\ error' = "listing_fetch_failed"
    /\ log' = Append(log, "L")
    /\ UNCHANGED <<site, page_url, detail_urls, seen_detail_urls, records, idx,
                   fetched_pages, outcomes>>
    /\ UNCHANGED parse_vars

\* The end of one iteration of "for idx, detail_url in enumerate(detail_urls, 1)".
NextDetail == IF idx < Len(detail_urls) THEN "details" ELSE "done"

\* A variant of DetailFetchFails that raises instead of emitting a row.
DetailFetchFails_Raises ==
    /\ pc = "details"
    /\ outcomes' = Append(outcomes, "fetch_failed")
    /\ log' = Append(log, "D")
    /\ pc' = "aborted"
    /\ error' = "detail_fetch_failed"
    /\ UNCHANGED <<site, page_url, detail_urls, seen_detail_urls, records, idx,
                   fetched_pages>>
    /\ UNCHANGED parse_vars

\* Lines 261-265: fetch_html gives None; the placeholder row; continue.
DetailFetchFails ==
    /\ pc = "details"
    /\ records' = Append(records, PlaceholderRow(detail_urls[idx]))
    /\ outcomes' = Append(outcomes, "fetch_failed")
    /\ log' = Append(log, "D")
    /\ idx' = idx + 1
    /\ pc' = NextDetail
    /\ UNCHANGED <<site, page_url, detail_urls, seen_detail_urls, error, fetched_pages>>
    /\ UNCHANGED parse_vars

\* Lines 273-274: the sleep after a row, when another detail URL follows.
SleepAfterRow == IF idx < Len(detail_urls) THEN <<"D", "S">> ELSE <<"D">>

\* Lines 261, 266-267, 272-274: the page is fetched and parsed.
DetailParsed ==
    /\ pc = "details"
    /\ records' = Append(records,
                         parse_detail_page(DetailHtml(detail_urls[idx]), detail_urls[idx]))
    /\ outcomes' = Append(outcomes, "parsed")
    /\ log' = log \o SleepAfterRow
    /\ idx' = idx + 1
    /\ pc' = NextDetail
    /\ UNCHANGED <<site, page_url, detail_urls, seen_detail_urls, error, fetched_pages>>
    /\ UNCHANGED parse_vars

\* Lines 261, 266-274: the page is fetched and parse_detail_page raises.
DetailParseRaises ==
    /\ pc = "details"
    /\ records' = Append(records, PlaceholderRow(detail_urls[idx]))
    /\ outcomes' = Append(outcomes, "parse_raised")
    /\ log' = log \o SleepAfterRow
    /\ idx' = idx + 1
    /\ pc' = NextDetail
    /\ UNCHANGED <<site, page_url, detail_urls, seen_detail_urls, error, fetched_pages>>
    /\ UNCHANGED parse_vars

Next == WalkPage \/ WalkFetchFails \/ DetailFetchFails \/ DetailParsed \/ DetailParseRaises

Spec == Init /\ [][Next]_vars

(***************************************************************************)
(* Properties of the detail extractor (under ParseSpec).                   *)
(***************************************************************************)
Min(S) == CHOOSE x \in S : \A y \in S : x <= y
Max(S) == CHOOSE x \in S : \A y \in S : x >= y

HELD_LABELS == {L_FLOOR, L_TOTAL_FLOORS, L_MANAGEMENT_FORM, L_MANAGEMENT_COMPANY}

\* The positions in LABEL_MAP of the keys a label holds.
MatchingKeys(label) == {i \in 1..Len(LABEL_MAP) : Contains(LABEL_MAP[i][1], label)}

\* The pair at position i of the page goes through the synonym table to column c.
MapsTo(i, c) ==
    LET label == normalize_text(pairs[i][1])
    IN  /\ label \notin HELD_LABELS
        /\ MatchingKeys(label) # {}
        /\ LABEL_MAP[Min(MatchingKeys(label))][2] = c

\* C6: a pair whose label is not one of the held floor and management labels
\* writes its value to the column of the key declared first in LABEL_MAP among
\* the keys its normalized label holds, and changes nothing else; a label that
\* holds no key changes nothing.
C6_FirstDeclaredKeyWins ==
    [][ (parse_pc = "scan" /\ pair_index' = pair_index + 1
            /\ normalize_text(pairs[pair_index][1]) \notin HELD_LABELS)
        => LET label == normalize_text(pairs[pair_index][1])
               value == pairs[pair_index][2]
               keys  == MatchingKeys(label)
           IN  /\ keys = {} => data' = data
               /\ keys # {} => data' = [data EXCEPT ![LABEL_MAP[Min(keys)][2]] = value]
               /\ UNCHANGED <<floor_value, total_floors, management_parts>> ]_vars

\* C6's case: the pair labelled "土地権利/用途地域" has been scanned and its value
\* is in the column of "用途地域", declared before "土地権利", and not in the other.
C6_Witness ==
    /\ parse_pc = "scan"
    /\ pair_index > 1
    /\ pairs[pair_index - 1] = <<<<22303, 22320, 27177, 21033, 47, 29992, 36884, 22320, 22495>>, V_B>>
    /\ data["zoning"] = V_B
    /\ data["land_right"] = NoneVal

\* C7: when two pairs of the page map to the same column, the returned row holds
\* in that column the value of the later one (of the last pair mapped to it).
C7_LastWriteWins ==
    parse_pc = "done" =>
        \A c \in ColumnSet : \A i, j \in 1..Len(pairs) :
            (i < j /\ MapsTo(i, c) /\ MapsTo(j, c)
                /\ \A k \in (j + 1)..Len(pairs) : ~MapsTo(k, c))
            => data[c] = pairs[j][2]

\* The value of the last pair with this label, or None.
LastHeld(label) ==
    LET at == {i \in 1..Len(pairs) : normalize_text(pairs[i][1]) = label}
    IN  IF at = {} THEN NoneVal ELSE pairs[Max(at)][2]

\* C8: the floor column is null until the pair loop is over; in the returned row
\* it is f / t when both a floor f and a total t were held, the one held value
\* when only one was, and null when none was.
C8_FloorCombination ==
    /\ parse_pc \in {"start", "scan"} => data["floor"] = NoneVal
    /\ parse_pc = "done" =>
        LET f == LastHeld(L_FLOOR)
            t == LastHeld(L_TOTAL_FLOORS)
        IN  data["floor"] =
                IF f # NoneVal /\ t # NoneVal THEN f \o <<32, 47, 32>> \o t
                ELSE IF f # NoneVal THEN f
                ELSE IF t # NoneVal THEN t
                ELSE NoneVal

\* C8's case: the total floors came before the floor in the document, and the
\* returned row holds "3階 / 10階建".
C8_Witness ==
    /\ parse_pc = "done"
    /\ \E i, j \in 1..Len(pairs) :
          i < j /\ pairs[i] = <<L_TOTAL_FLOORS, V_10F>> /\ pairs[j] = <<L_FLOOR, V_3F>>
    /\ data["floor"] = <<51, 38542, 32, 47, 32, 49, 48, 38542, 24314>>

\* The rows of the page's tables, in document order.
RECURSIVE RowsOf(_)
RowsOf(tables) == IF tables = <<>> THEN <<>> ELSE Head(tables) \o RowsOf(Tail(tables))

\* The pairs that came from the tables: those after the pairs of the <dl> lists.
TablePairs == SubSeq(pairs, Len(AllDlPairs(html.dls)) + 1, Len(pairs))

CellText(node) == normalize_text(get_text_strip(node))

\* The texts of the first <th> and the first <td> of a row are both non-empty.
HasTexts(r) == CellText(r.ths[1]) # <<>> /\ CellText(r.tds[1]) # <<>>

\* The rows with exactly one <th> and exactly one <td>, and texts in them.
ExactlyOneEach ==
    SelectSeq(RowsOf(html.tables),
              LAMBDA r : Len(r.ths) = 1 /\ Len(r.tds) = 1 /\ HasTexts(r))

\* The rows with at least one <th> and at least one <td>, and texts in the first.
AtLeastOneEach ==
    SelectSeq(RowsOf(html.tables),
              LAMBDA r : Len(r.ths) >= 1 /\ Len(r.tds) >= 1 /\ HasTexts(r))

PairsAre(rows) ==
    /\ Len(TablePairs) = Len(rows)
    /\ \A k \in 1..Len(rows) :
          TablePairs[k] = <<CellText(rows[k].ths[1]), CellText(rows[k].tds[1])>>

\* C9 as stated: only a row with exactly one <th> and exactly one <td> gives a pair.
C9_ExactlyOneCellEach == parse_pc # "start" => PairsAre(ExactlyOneEach)

\* C9 amended: a row gives a pair when it has at least one <th> and at least one
\* <td> and the texts of the first of each are non-empty, and the pair is made
\* of those two texts; a row with no <th> or no <td> gives none.
C9_FirstCellOfEach == parse_pc # "start" => PairsAre(AtLeastOneEach)

\* C9's case: a table with a row of two <th> and two <td>, a row without <td>
\* and a row without <th> has given the one pair of the first cells.
C9_Witness ==
    /\ parse_pc = "scan"
    /\ html.tables # <<>>
    /\ \E r \in 1..Len(html.tables[1]) :
          Len(html.tables[1][r].ths) = 2 /\ Len(html.tables[1][r].tds) = 2
    /\ \E r \in 1..Len(html.tables[1]) : html.tables[1][r].ths = <<>>
    /\ \E r \in 1..Len(html.tables[1]) : html.tables[1][r].tds = <<>>
    /\ TablePairs = << <<<<36009, 22770, 20385, 26684>>, V_B>> >>

(***************************************************************************)
(* Properties of scrape_suumo (under Spec).                                *)
(***************************************************************************)
\* C1: every row of records has exactly the keys COLUMNS, and its url is not
\* null and is the detail URL the row was built for; the synonym table names
\* no column outside COLUMNS and not url.
C1_RowShape ==
    /\ Len(records) <= Len(detail_urls)
    /\ \A i \in 1..Len(records) :
          /\ DOMAIN records[i] = ColumnSet
          /\ records[i]["url"] # NoneVal
          /\ records[i]["url"] = detail_urls[i]
    /\ \A k \in 1..Len(LABEL_MAP) : LABEL_MAP[k][2] \in ColumnSet \ {"url"}

\* C1's case: records holds a row parsed from the page with every known label
\* and a label "url", a row of a failed fetch and a row of a failed parse.
C1_Witness ==
    /\ \E i \in 1..Len(records) :
          /\ outcomes[i] = "parsed"
          /\ detail_urls[i] = U_DETAIL
          /\ records[i]["reform"] = V_A
    /\ \E i \in 1..Len(records) : outcomes[i] = "fetch_failed"
    /\ \E i \in 1..Len(records) : outcomes[i] = "parse_raised"

\* How many times x occurs in s.
Count(s, x) == Cardinality({i \in 1..Len(s) : s[i] = x})

\* C2: a detail URL whose fetch fails or whose parse raises gets a row with
\* every field null but url; the run is never aborted once detail pages are
\* visited, every detail URL is fetched in turn, and at the end every detail
\* URL has its row.
C2_FailedPageGivesNullRow ==
    /\ Len(outcomes) = Len(records)
    /\ Count(log, "D") = Len(records)
    /\ \A i \in 1..Len(records) :
          outcomes[i] \in {"fetch_failed", "parse_raised"}
          => \A c \in ColumnSet :
                records[i][c] = IF c = "url" THEN detail_urls[i] ELSE NoneVal
    /\ pc = "aborted" => outcomes = <<>>
    /\ pc = "details" => idx = Len(records) + 1 /\ idx <= Len(detail_urls)
    /\ pc = "done" => Len(records) = Len(detail_urls)

\* C2's case: the run is done; the first detail fetch failed, a later parse
\* raised, and a detail URL after both was fetched and parsed.
C2_Witness ==
    /\ pc = "done"
    /\ Len(records) >= 3
    /\ outcomes[1] = "fetch_failed"
    /\ outcomes[2] = "parse_raised"
    /\ outcomes[3] = "parsed"

\* A listing fetch has failed: there are more listing fetches than pages got.
ListingFetchFailed == Count(log, "L") > Len(fetched_pages)

\* C3 as stated: a listing fetch that fails aborts the run only when it is the
\* very first; after the failure of a later one the run goes on.
C3_LaterFailureNotFatal ==
    (ListingFetchFailed /\ pc = "aborted") => fetched_pages = <<>>

\* An href of the page fetched last is one that urljoin raises ValueError for.
LastPageHasBadHref ==
    /\ fetched_pages # <<>>
    /\ \E i \in 1..Len(site[Len(fetched_pages)]) :
          LET href == site[Len(fetched_pages)][i].href
          IN  Truthy(href) /\ urljoin(fetched_pages[Len(fetched_pages)], href) = ValueError

\* C3 amended: the failure of any listing fetch, the first or a later one, aborts
\* the run with RuntimeError, whatever detail URLs the pages before gave: no
\* detail page is visited and no row is emitted.  Nothing else aborts the run
\* but zero detail URLs after the walk, and an href that urljoin raises
\* ValueError for.
C3_AnyListingFailureFatal ==
    /\ ListingFetchFailed
       => pc = "aborted" /\ error = "listing_fetch_failed" /\ records = <<>>
            /\ Count(log, "D") = 0
    /\ pc = "aborted" =>
          \/ error = "listing_fetch_failed" /\ ListingFetchFailed
          \/ error = "no_detail_urls" /\ detail_urls = <<>> /\ ~ListingFetchFailed
          \/ error = "ValueError" /\ LastPageHasBadHref /\ ~ListingFetchFailed

\* C3's case: the first page was fetched and gave detail URLs, the fetch of a
\* later page failed, and the run is aborted.
C3_Witness ==
    /\ pc = "aborted"
    /\ error = "listing_fetch_failed"
    /\ Len(fetched_pages) >= 1
    /\ detail_urls # <<>>

\* The URLs page k links to with an href the filter of line 115 lets through.
LinkedFrom(k) ==
    LET links == SelectSeq(site[k], LAMBDA a : Truthy(a.href) /\ IsDetailHref(a.href))
    IN  [i \in 1..Len(links) |-> urljoin(ListingUrl(k), links[i].href)]

RECURSIVE LinkedUpTo(_)
LinkedUpTo(k) == IF k = 0 THEN <<>> ELSE LinkedUpTo(k - 1) \o LinkedFrom(k)

FirstAt(s, x) == Min({i \in 1..Len(s) : s[i] = x})

\* The walk has ended and no detail page is visited yet: detail_urls is its
\* result.
WalkOver ==
    \/ pc = "details" /\ records = <<>>
    \/ pc = "aborted" /\ error = "no_detail_urls"

\* An anchor the page marks as its link to the next page: rel="next", or one of
\* the texts that mean "next page".
IsNextAnchor(a) == a.rel_next \/ normalize_text(get_text(a.text)) \in NEXT_TEXTS

\* Page k has a next link to page m: an anchor marked as next whose href, read
\* from page k, is the URL of page m.
HasNextLinkTo(k, m) ==
    \E i \in 1..Len(site[k]) :
        /\ IsNextAnchor(site[k][i])
        /\ Truthy(site[k][i].href)
        /\ urljoin(ListingUrl(k), site[k][i].href) = ListingUrl(m)

\* Page k has no next link: no anchor marked as next has an href.
HasNoNextLink(k) ==
    \A i \in 1..Len(site[k]) : ~(IsNextAnchor(site[k][i]) /\ Truthy(site[k][i].href))

\* The site is a chain of N listing pages: each of the pages 1..N-1 has a next
\* link to the page after it, and page N has none.
IsChainOf(N) ==
    /\ N \in 1..Len(site)
    /\ \A k \in 1..(N - 1) : HasNextLinkTo(k, k + 1)
    /\ HasNoNextLink(N)

\* C4: on a chain of N pages, each fetched successfully, the walk fetches page
\* 1 to page N, each once and in order, and ends there; when it is over
\* detail_urls holds every URL linked from any of the N pages exactly once, in
\* the order of first occurrence.
C4_WalkVisitsChainOnce ==
    (pc \in {"walk", "aborted"} \/ WalkOver) =>
        \A N \in 1..Len(site) :
            (IsChainOf(N) /\ ~ListingFetchFailed) =>
                /\ Len(fetched_pages) <= N
                /\ \A k \in 1..Len(fetched_pages) : fetched_pages[k] = ListingUrl(k)
                /\ pc = "walk" => Len(fetched_pages) < N
                /\ pc # "walk" => Len(fetched_pages) = N
                /\ pc = "aborted" => error = "no_detail_urls"
                /\ WalkOver =>
                      LET all == LinkedUpTo(N)
                      IN  /\ \A i, j \in 1..Len(detail_urls) :
                                detail_urls[i] = detail_urls[j] => i = j
                          /\ {detail_urls[i] : i \in 1..Len(detail_urls)}
                                = {all[i] : i \in 1..Len(all)}
                          /\ \A i, j \in 1..Len(detail_urls) :
                                i < j => FirstAt(all, detail_urls[i])
                                            < FirstAt(all, detail_urls[j])

\* C5: between two successive fetches of listing pages, and between two
\* successive fetches of detail pages, there is a sleep.
C5_SleepBetweenFetches ==
    \A i \in 1..(Len(log) - 1) : ~(log[i] \in {"L", "D"} /\ log[i + 1] = log[i])

\* C10: no URL fetched as a listing page is in the detail-URL sequence.
C10_ListingPagesApart ==
    \A i \in 1..Len(fetched_pages) : ~InSeq(fetched_pages[i], detail_urls)

=============================================================================
